---- MODULE Spec2Model ----
(***************************************************************************)
(* Model of the list-virtualisation hooks of react-virtual-scroll.         *)
(*                                                                         *)
(*   variant "Simple"        : useFixedListSize  (src/unnamed/part_000)    *)
(*   variant "DynamicHeight" : useFixedSizeList  (createItems.tsx 262-439, *)
(*                             which subsumes the computed-height hook of  *)
(*                             lines 49-161 when itemHeight is supplied)   *)
(*                                                                         *)
(* Lengths are whole pixels, times are milliseconds.  Arrays are modelled  *)
(* as sequences: the JavaScript element a[i] is the TLA+ element a[i+1].   *)
(***************************************************************************)
EXTENDS Integers, Sequences, FiniteSets, TLC

VARIABLES
    variant,          \* which hook is mounted: "Simple" | "DynamicHeight"
    props,            \* the props the hook was called with
    items,            \* the host's item array, as the sequence of item ids
    error,            \* "none", or the error the hook threw at set-up
    scrollTop,        \* useState(0)
    listHeight,       \* useState(0)       (DynamicHeight only)
    isScrolling,      \* useState(false)
    measurementCache, \* useState({})      (DynamicHeight only): key -> height
    memo,             \* the result of the range useMemo of the last render
    lifecycle,        \* "rendered" (effects not yet run) | "mounted" | "unmounted"
    listeners,        \* handlers registered on the scroll element / observer
    timeoutId,        \* the closure variable of the live isScrolling effect
    timers,           \* pending window.setTimeout callbacks: id -> ms left
    sinceScroll,      \* ms since the debounce handler last ran, -1: never
    reported          \* history: key -> the height last passed to the cache

vars == <<variant, props, items, error, scrollTop, listHeight, isScrolling,
          measurementCache, memo, lifecycle, listeners, timeoutId, timers,
          sinceScroll, reported>>

---------------------------------------------------------------------------
(* Bounds of the model.                                                    *)

MaxItems == 2
MaxOverscan == 1
MaxHeight == 2
Estimate == 2
MaxScroll == 3
MaxViewport == 2
MaxTimers == 2
ListLength == 4
Quantum == 75
MaxElapsed == 200
MaxOverscroll == 1

(* Program constants.                                                      *)

SCROLLING_DELAY == 150
DEFAULT_SCROLLING_DELAY == 100

\* An optional prop (a function the caller may leave out) and its value: the
\* table of an itemHeight function, the number an estimate function returns.
NoItemHeight == [supplied |-> FALSE, value |-> << >>]
NoEstimate == [supplied |-> FALSE, value |-> 0]
Supplied(v) == [supplied |-> TRUE, value |-> v]

\* getScrollElement(): null, or the element with its current scrollTop.
NoElement == [present |-> FALSE, scrollTop |-> 0]
ScrollElement(top) == [present |-> TRUE, scrollTop |-> top]

Max(a, b) == IF a >= b THEN a ELSE b
Min(a, b) == IF a <= b THEN a ELSE b

\* Math.round of the quotient a / b for b > 0: floor(a/b + 1/2).
MathRound(a, b) == (2 * a + b) \div (2 * b)

\* Array.prototype.slice(start, end) with its handling of negative and
\* out-of-range arguments.
Slice(arr, start, end) ==
    LET len == Len(arr)
        k == IF start < 0 THEN Max(len + start, 0) ELSE Min(start, len)
        final == IF end < 0 THEN Max(len + end, 0) ELSE Min(end, len)
    IN  SubSeq(arr, k + 1, final)

---------------------------------------------------------------------------
(* useFixedListSize: the O(1) range computation.                           *)

FixedContainerHeight(elementHeight) == elementHeight * elementHeight

FixedStartIndex(elementHeight, top, overscan) ==
    Max(0, MathRound(top, elementHeight) - overscan)

FixedEndIndex(elementHeight, top, overscan, listLength) ==
    Min(listLength,
        MathRound(top + FixedContainerHeight(elementHeight), elementHeight)
            + overscan)

FixedVirtualItems(elementHeight, start, end) ==
    [k \in 1..Max(0, end - start + 1) |->
        [offsetTop |-> (start + k - 1) * elementHeight,
         id |-> start + k - 1,
         content |-> start + k - 1]]

FixedTotalHeight(elementHeight, elementQuantity) ==
    elementHeight * elementQuantity

useMemoFixed(p, top, list) ==
    LET start == FixedStartIndex(p.elementHeight, top, p.overscan)
        end == FixedEndIndex(p.elementHeight, top, p.overscan, Len(list))
    IN  [startIndex |-> start,
         endIndex |-> end,
         virtualItems |-> FixedVirtualItems(p.elementHeight, start, end),
         totalHeight |-> FixedTotalHeight(p.elementHeight, p.elementQuantity),
         allRows |-> << >>]

---------------------------------------------------------------------------
(* useFixedSizeList: the forward pass.                                     *)

\* The index used as the key: getItemKey = (index) => index.
getItemKeyIndex(list, index) == index

\* The host's getItemKey: (index) => items[index].id.
getItemKey(list, index) == list[index + 1]

\* The cache read by index where the code reads it by key.
getItemHeightByIndex(p, cache, list, index) ==
    IF p.itemHeight.supplied
    THEN p.itemHeight.value[index + 1]
    ELSE IF index \in DOMAIN cache
         THEN cache[index]
         ELSE p.estimateItemHeight.value

getItemHeight(p, cache, list, index) ==
    IF p.itemHeight.supplied
    THEN p.itemHeight.value[index + 1]
    ELSE LET key == getItemKey(list, index)
         IN  IF key \in DOMAIN cache
             THEN cache[key]
             ELSE p.estimateItemHeight.value

\* totalHeight = row.height: the accumulation lost.
AccumulateAssigned(total, height) == height

\* totalHeight += row.height.
Accumulate(total, height) == total + height

\* One iteration of the for loop over index.
PassStep(acc, p, cache, list, top, bottom, index) ==
    LET row == [key |-> getItemKey(list, index),
                height |-> getItemHeight(p, cache, list, index),
                offsetTop |-> acc.totalHeight,
                index |-> index]
        reachedTop == acc.startIndex = -1
                      /\ row.offsetTop + row.height > top
        reachedBottom == acc.endIndex = -1
                         /\ row.offsetTop + row.height >= bottom
    IN  [allRows |-> Append(acc.allRows, row),
         totalHeight |-> Accumulate(acc.totalHeight, row.height),
         startIndex |-> IF reachedTop
                        THEN Max(0, index - p.overscan)
                        ELSE acc.startIndex,
         endIndex |-> IF reachedBottom
                      THEN Min(p.elementsQuantity - 1, index + p.overscan)
                      ELSE acc.endIndex]

RECURSIVE PassLoop(_, _, _, _, _, _, _)
PassLoop(acc, p, cache, list, top, bottom, index) ==
    IF index < p.elementsQuantity
    THEN PassLoop(PassStep(acc, p, cache, list, top, bottom, index),
                  p, cache, list, top, bottom, index + 1)
    ELSE acc

useMemoGeneral(p, cache, list, top, height) ==
    LET scrolledTopArea == top
        scrolledBottomArea == scrolledTopArea + height
        r == PassLoop([allRows |-> << >>, totalHeight |-> 0,
                       startIndex |-> -1, endIndex |-> -1],
                      p, cache, list, scrolledTopArea, scrolledBottomArea, 0)
    IN  [startIndex |-> r.startIndex,
         endIndex |-> r.endIndex,
         virtualItems |-> Slice(r.allRows, r.startIndex, r.endIndex + 1),
         totalHeight |-> r.totalHeight,
         allRows |-> r.allRows]

\* The render that follows every state change: the hook's range useMemo.
Render(v, p, cache, list, top, height) ==
    IF v = "Simple"
    THEN useMemoFixed(p, top, list)
    ELSE useMemoGeneral(p, cache, list, top, height)

---------------------------------------------------------------------------
(* Timers: window.setTimeout / window.clearTimeout.                        *)

EmptyMap == [x \in {} |-> 0]

clearTimeout(pending, id) == [x \in DOMAIN pending \ {id} |-> pending[x]]

\* The id window.setTimeout returns: a positive number no pending timer has.
FreshId(pending) ==
    CHOOSE i \in 1..(MaxTimers + 1) :
        /\ i \notin DOMAIN pending
        /\ \A j \in 1..(i - 1) : j \in DOMAIN pending

setTimeout(pending, id, delay) == (id :> delay) @@ pending

\* The cancellation without the new window.setTimeout.
DebounceCancelOnly(pending, current, delay) ==
    [timeoutId |-> 0,
     timers |-> IF current # 0 THEN clearTimeout(pending, current)
                ELSE pending]

\* The timer part of handleScroll: if (timeoutId) clearTimeout(timeoutId);
\* timeoutId = setTimeout(() => setIsScrolling(false), delay).
Debounce(pending, current, delay) ==
    LET cleared == IF current # 0 THEN clearTimeout(pending, current)
                   ELSE pending
        id == FreshId(cleared)
    IN  [timeoutId |-> id, timers |-> setTimeout(cleared, id, delay)]

\* The delay each hook passes to window.setTimeout.
DebounceDelay(v, p) ==
    IF v = "Simple" THEN p.scrollingDelay ELSE SCROLLING_DELAY

\* The listeners the effect cleanups remove from the scroll element.
CleanupAll(v, ls) == IF v = "Simple" THEN ls ELSE {}

CleanupIsScrolling(ls) == ls \ {"isScrolling"}

---------------------------------------------------------------------------
(* Inputs.                                                                 *)

ScrollOffsets == 0..MaxScroll
\* The offsets below 0 an element reports while it is dragged past its top
\* edge (elastic overscroll).
OverscrollOffsets == (0 - MaxOverscroll)..(-1)
ViewportSizes == 0..MaxViewport
Heights == 1..MaxHeight
ScrollingDelays == {SCROLLING_DELAY, MaxElapsed}

\* createItems(n): ids 0..n-1 in order.
createItems(n) == [k \in 1..n |-> k - 1]

Reverse(list) == [k \in 1..Len(list) |-> list[Len(list) + 1 - k]]

\* Caller-supplied itemHeight functions, as the table of their values:
\* every constant function and two that vary with the index.
ItemHeightFns(n) ==
    {[k \in 1..n |-> h] : h \in Heights}
        \cup {[k \in 1..n |-> 1 + ((k + c) % MaxHeight)] : c \in 0..1}

PropsSimple ==
    [elementHeight : Heights,
     elementQuantity : 0..MaxItems,
     overscan : 0..MaxOverscan,
     scrollingDelay : {DEFAULT_SCROLLING_DELAY}]

PropsDynamic ==
    UNION {[itemHeight : {Supplied(f) : f \in ItemHeightFns(n)}
                             \cup {NoItemHeight},
            estimateItemHeight : {NoEstimate, Supplied(Estimate)},
            elementsQuantity : {n},
            overscan : 0..MaxOverscan,
            scrollingDelay : ScrollingDelays] : n \in 0..MaxItems}

\* The elements a ref callback can be handed: null, or an element with a
\* data-index attribute (absent: getAttribute gives null) and a rendered
\* height.
IndexAttributes == <<"0", "1", "2", "3", "4">>

NullRef == [present |-> FALSE, dataIndex |-> "", height |-> 0]

Elements(n) ==
    {NullRef}
        \cup [present : {TRUE},
              dataIndex : {""} \cup {IndexAttributes[k] : k \in 1..n},
              height : Heights]

\* parseInt(s, 10) of a data-index attribute: NaN for the empty string.
parseInt(s) ==
    IF \E k \in 1..Len(IndexAttributes) : IndexAttributes[k] = s
    THEN [isNaN |-> FALSE,
          value |-> (CHOOSE k \in 1..Len(IndexAttributes) :
                        IndexAttributes[k] = s) - 1]
    ELSE [isNaN |-> TRUE, value |-> 0]

\* The test of the estimate alone: if (!estimateItemHeight) throw.
validatePropsEstimateOnly(p) ==
    IF ~p.estimateItemHeight.supplied
    THEN "config"
    ELSE "none"

validateProps(p) ==
    IF ~p.itemHeight.supplied /\ ~p.estimateItemHeight.supplied
    THEN "config"
    ELSE "none"

NoMemo ==
    [startIndex |-> 0, endIndex |-> 0, virtualItems |-> << >>,
     totalHeight |-> 0, allRows |-> << >>]

---------------------------------------------------------------------------
(* Initial states: the hook has been called once (first render), its       *)
(* effects have not run yet.                                               *)

InitSimple ==
    /\ variant = "Simple"
    /\ props \in PropsSimple
    /\ items = createItems(ListLength)
    /\ error = "none"
    /\ memo = useMemoFixed(props, 0, items)

InitDynamic ==
    /\ variant = "DynamicHeight"
    /\ props \in PropsDynamic
    /\ items = createItems(props.elementsQuantity)
    /\ error = validateProps(props)
    /\ memo = IF error = "none"
              THEN useMemoGeneral(props, EmptyMap, items, 0, 0)
              ELSE NoMemo

Init ==
    /\ InitSimple \/ InitDynamic
    /\ scrollTop = 0
    /\ listHeight = 0
    /\ isScrolling = FALSE
    /\ measurementCache = EmptyMap
    /\ lifecycle = "rendered"
    /\ listeners = {}
    /\ timeoutId = 0
    /\ timers = EmptyMap
    /\ sinceScroll = -1
    /\ reported = EmptyMap

---------------------------------------------------------------------------
(* Operations.  A state setter of an unmounted component does nothing, and *)
(* every state change is followed by a render that recomputes the range.   *)

Live == lifecycle = "mounted"

Rerender ==
    memo' = Render(variant, props', measurementCache', items', scrollTop',
                   listHeight')

\* The effects run after the first render, with what getScrollElement()
\* returns at that moment.
Mount(el) ==
    /\ error = "none"
    /\ lifecycle = "rendered"
    /\ lifecycle' = "mounted"
    /\ IF ~el.present
       THEN UNCHANGED <<scrollTop, isScrolling, listeners, timeoutId, timers,
                        sinceScroll>>
       ELSE IF variant = "Simple"
       THEN LET d == Debounce(timers, 0, DebounceDelay(variant, props))
            IN  /\ scrollTop' = el.scrollTop
                /\ isScrolling' = TRUE
                /\ timeoutId' = d.timeoutId
                /\ timers' = d.timers
                /\ sinceScroll' = 0
                /\ listeners' = {"handleScroll"}
       ELSE /\ scrollTop' = el.scrollTop
            /\ listeners' = {"resize", "scrollTop", "isScrolling"}
            /\ timeoutId' = 0
            /\ UNCHANGED <<isScrolling, timers, sinceScroll>>
    /\ UNCHANGED <<variant, props, items, error, listHeight,
                   measurementCache, reported>>
    /\ Rerender

\* The component goes away: every effect's cleanup runs.
Unmount ==
    /\ error = "none"
    /\ lifecycle = "mounted"
    /\ lifecycle' = "unmounted"
    /\ listeners' = CleanupAll(variant, listeners)
    /\ UNCHANGED <<variant, props, items, error, scrollTop, listHeight,
                   isScrolling, measurementCache, memo, timeoutId, timers,
                   sinceScroll, reported>>

\* The scroll element fires a scroll event at offset s: every registered
\* handler runs.
Scroll(s) ==
    /\ error = "none"
    /\ lifecycle # "rendered"
    /\ LET tracks == listeners \cap {"scrollTop", "handleScroll"} # {}
           debounces == listeners \cap {"isScrolling", "handleScroll"} # {}
           d == Debounce(timers, timeoutId, DebounceDelay(variant, props))
       IN  /\ debounces =>
                 Cardinality(DOMAIN clearTimeout(timers, timeoutId))
                     < MaxTimers
           /\ scrollTop' = IF Live /\ tracks THEN s ELSE scrollTop
           /\ isScrolling' = IF Live /\ debounces THEN TRUE ELSE isScrolling
           /\ timeoutId' = IF debounces THEN d.timeoutId ELSE timeoutId
           /\ timers' = IF debounces THEN d.timers ELSE timers
           /\ sinceScroll' = IF debounces THEN 0 ELSE sinceScroll
    /\ UNCHANGED <<variant, props, items, error, listHeight,
                   measurementCache, lifecycle, listeners, reported>>
    /\ Rerender

\* The ResizeObserver reports the scroll element's border-box height.
Resize(h) ==
    /\ error = "none"
    /\ "resize" \in listeners
    /\ listHeight' = h
    /\ UNCHANGED <<variant, props, items, error, scrollTop, isScrolling,
                   measurementCache, lifecycle, listeners, timeoutId, timers,
                   sinceScroll, reported>>
    /\ Rerender

\* The spread of the previous cache left out: ({ [key]: height }).
setMeasurementNoSpread(cache, key, height) == [k \in {key} |-> height]

\* setMeasurementCache((cache) => ({ ...cache, [key]: height })).
setMeasurement(cache, key, height) ==
    [k \in DOMAIN cache \cup {key} |-> IF k = key THEN height ELSE cache[k]]

\* The Number.isNaN test left out: a data-index that is no number is read
\* as index 0.
measureElementUnchecked(element) ==
    /\ error = "none"
    /\ variant = "DynamicHeight"
    /\ ~props.itemHeight.supplied
    /\ Live
    /\ IF ~element.present \/ Len(items) = 0
       THEN UNCHANGED <<measurementCache, reported>>
       ELSE LET key == getItemKey(items, parseInt(element.dataIndex).value)
            IN  /\ measurementCache' =
                       setMeasurement(measurementCache, key, element.height)
                /\ reported' = (key :> element.height) @@ reported
    /\ UNCHANGED <<variant, props, items, error, scrollTop, listHeight,
                   isScrolling, lifecycle, listeners, timeoutId, timers,
                   sinceScroll>>
    /\ Rerender

\* The ref callback of a rendered row.  A host hands measureElement to its
\* rows only when it leaves itemHeight out (createItems.tsx 449-456, 487).
measureElement(element) ==
    /\ error = "none"
    /\ variant = "DynamicHeight"
    /\ ~props.itemHeight.supplied
    /\ Live
    /\ LET index == parseInt(element.dataIndex)
       IN  IF ~element.present \/ index.isNaN
           THEN UNCHANGED <<measurementCache, reported>>
           ELSE LET key == getItemKey(items, index.value)
                IN  /\ measurementCache' =
                           setMeasurement(measurementCache, key,
                                          element.height)
                    /\ reported' = (key :> element.height) @@ reported
    /\ UNCHANGED <<variant, props, items, error, scrollTop, listHeight,
                   isScrolling, lifecycle, listeners, timeoutId, timers,
                   sinceScroll>>
    /\ Rerender

\* The host reverses its items: getItemKey is a new function.
handleReverseButtonClick ==
    /\ error = "none"
    /\ variant = "DynamicHeight"
    /\ Live
    /\ items' = Reverse(items)
    /\ UNCHANGED <<variant, props, error, scrollTop, listHeight, isScrolling,
                   measurementCache, lifecycle, listeners, timeoutId, timers,
                   sinceScroll, reported>>
    /\ Rerender

\* A render with another scrollingDelay: the isScrolling effect (deps
\* [scrollingDelay, getScrollElement]) is cleaned up and runs again.
ChangeScrollingDelay(delay, el) ==
    /\ error = "none"
    /\ variant = "DynamicHeight"
    /\ Live
    /\ delay # props.scrollingDelay
    /\ props' = [props EXCEPT !.scrollingDelay = delay]
    /\ listeners' = IF el.present
                    THEN CleanupIsScrolling(listeners) \cup {"isScrolling"}
                    ELSE CleanupIsScrolling(listeners)
    /\ timeoutId' = 0
    /\ UNCHANGED <<variant, items, error, scrollTop, listHeight, isScrolling,
                   measurementCache, lifecycle, timers, sinceScroll,
                   reported>>
    /\ Rerender

\* A render with another getScrollElement: all three effects are cleaned
\* up and run again on what it returns now.
ChangeScrollElement(el) ==
    /\ error = "none"
    /\ variant = "DynamicHeight"
    /\ Live
    /\ listeners' = IF el.present
                    THEN {"resize", "scrollTop", "isScrolling"}
                    ELSE {}
    /\ scrollTop' = IF el.present THEN el.scrollTop ELSE scrollTop
    /\ timeoutId' = 0
    /\ UNCHANGED <<variant, props, items, error, listHeight, isScrolling,
                   measurementCache, lifecycle, timers, sinceScroll,
                   reported>>
    /\ Rerender

\* Time passes; a timer that is due fires before more time passes.
Tick ==
    /\ error = "none"
    /\ \A id \in DOMAIN timers : timers[id] > 0
    /\ DOMAIN timers # {} \/ (sinceScroll >= 0 /\ sinceScroll < MaxElapsed)
    /\ timers' = [id \in DOMAIN timers |-> Max(0, timers[id] - Quantum)]
    /\ sinceScroll' = IF sinceScroll < 0 THEN sinceScroll
                      ELSE Min(MaxElapsed, sinceScroll + Quantum)
    /\ UNCHANGED <<variant, props, items, error, scrollTop, listHeight,
                   isScrolling, measurementCache, memo, lifecycle, listeners,
                   timeoutId, reported>>

\* A due timer runs its callback: () => setIsScrolling(false).
TimerFire(id) ==
    /\ error = "none"
    /\ id \in DOMAIN timers
    /\ timers[id] = 0
    /\ timers' = clearTimeout(timers, id)
    /\ isScrolling' = IF Live THEN FALSE ELSE isScrolling
    /\ UNCHANGED <<variant, props, items, error, scrollTop, listHeight,
                   measurementCache, memo, lifecycle, listeners, timeoutId,
                   sinceScroll, reported>>

Next ==
    \/ \E el \in {NoElement} \cup {ScrollElement(s) : s \in ScrollOffsets} :
           Mount(el)
    \/ Unmount
    \/ \E s \in ScrollOffsets : Scroll(s)
    \/ \E h \in ViewportSizes : Resize(h)
    \/ \E element \in Elements(Len(items)) : measureElement(element)
    \/ handleReverseButtonClick
    \/ \E delay \in ScrollingDelays, el \in {NoElement, ScrollElement(0)} :
           ChangeScrollingDelay(delay, el)
    \/ \E el \in {NoElement} \cup {ScrollElement(s) : s \in ScrollOffsets} :
           ChangeScrollElement(el)
    \/ Tick
    \/ \E id \in 1..(MaxTimers + 1) : TimerFire(id)

Spec == Init /\ [][Next]_vars

\* The events that feed the range computation, with the clock stopped: the
\* attachment and the scroll, resize, measurement and reorder notifications.
\* The scroll offsets include those of an overscroll.
NextRange ==
    \/ \E el \in {NoElement} \cup {ScrollElement(s) : s \in ScrollOffsets} :
           Mount(el)
    \/ \E s \in OverscrollOffsets \cup ScrollOffsets : Scroll(s)
    \/ \E h \in ViewportSizes : Resize(h)
    \/ \E element \in Elements(Len(items)) : measureElement(element)
    \/ handleReverseButtonClick

SpecRange == Init /\ [][NextRange]_vars

\* The events of the debounce: attachment and detachment, scroll
\* notifications, re-runs of the effects, the clock and the timer callbacks.
NextDebounce ==
    \/ \E el \in {NoElement} \cup {ScrollElement(s) : s \in ScrollOffsets} :
           Mount(el)
    \/ Unmount
    \/ \E s \in ScrollOffsets : Scroll(s)
    \/ \E delay \in ScrollingDelays, el \in {NoElement, ScrollElement(0)} :
           ChangeScrollingDelay(delay, el)
    \/ \E el \in {NoElement} \cup {ScrollElement(s) : s \in ScrollOffsets} :
           ChangeScrollElement(el)
    \/ Tick
    \/ \E id \in 1..(MaxTimers + 1) : TimerFire(id)

\* The browser's event loop: time passes, and a timer that is due runs its
\* callback.  Nothing obliges the user to scroll or the host to re-render.
SpecFair ==
    /\ Init
    /\ [][NextDebounce]_vars
    /\ WF_vars(Tick)
    /\ \A id \in 1..(MaxTimers + 1) : WF_vars(TimerFire(id))

---------------------------------------------------------------------------
(* Properties.                                                             *)

Ready == error = "none"

Dynamic == Ready /\ variant = "DynamicHeight"

Simple == Ready /\ variant = "Simple"

Measured == Dynamic /\ ~props.itemHeight.supplied

\* The number of items the range is computed over: elementsQuantity, and
\* for useFixedListSize the list its END_INDEX is clamped against.
ItemCount ==
    IF variant = "Simple" THEN Len(items) ELSE props.elementsQuantity

\* The viewport height the range is computed for: listHeight, and for
\* useFixedListSize the CONTAINER_HEIGHT it assumes.
ViewportSize ==
    IF variant = "Simple"
    THEN FixedContainerHeight(props.elementHeight)
    ELSE listHeight

RowTop(i) ==
    IF variant = "Simple"
    THEN i * props.elementHeight
    ELSE memo.allRows[i + 1].offsetTop

RowHeight(i) ==
    IF variant = "Simple"
    THEN props.elementHeight
    ELSE memo.allRows[i + 1].height

\* The items whose extent [top, top + height) meets the viewport
\* [scrollTop, scrollTop + viewport).
Overlapping ==
    {i \in 0..(ItemCount - 1) :
        /\ RowTop(i) < scrollTop + ViewportSize
        /\ RowTop(i) + RowHeight(i) > scrollTop}

RECURSIVE SumHeights(_, _)
SumHeights(rows, i) ==
    IF i = 0 THEN 0 ELSE SumHeights(rows, i - 1) + rows[i].height

RECURSIVE SumConstant(_, _)
SumConstant(h, i) == IF i = 0 THEN 0 ELSE SumConstant(h, i - 1) + h

Ceil(a, b) == (a + b - 1) \div b

\* C1: with itemCount > 0 the computed range satisfies
\* 0 <= startIndex <= endIndex <= itemCount - 1, in both hooks, at every
\* scroll offset, viewport size and cache content.
C1_RangeWithinItems ==
    (Ready /\ ItemCount > 0) =>
        /\ 0 <= memo.startIndex
        /\ memo.startIndex <= memo.endIndex
        /\ memo.endIndex <= ItemCount - 1

\* C2: with itemCount > 0 the range holds at least as many items as overlap
\* the viewport.
C2_RangeCoversViewport ==
    (Ready /\ ItemCount > 0) =>
        memo.endIndex - memo.startIndex + 1 >= Cardinality(Overlapping)

\* C3: in the forward pass, when the viewport's bottom edge lies past the
\* bottom of the last item, endIndex is itemCount - 1.
C3_EndIndexPastLastItem ==
    (Dynamic /\ props.elementsQuantity > 0
        /\ memo.totalHeight < scrollTop + listHeight) =>
        memo.endIndex = props.elementsQuantity - 1

\* C4: after every recomputation each row's offsetTop is the sum of the
\* heights of the rows before it, and totalHeight is the sum of all heights.
C4_OffsetsArePrefixSums ==
    /\ Dynamic =>
        /\ Len(memo.allRows) = props.elementsQuantity
        /\ \A i \in 1..Len(memo.allRows) :
               memo.allRows[i].offsetTop = SumHeights(memo.allRows, i - 1)
        /\ memo.totalHeight = SumHeights(memo.allRows, Len(memo.allRows))
    /\ Simple =>
        /\ \A k \in 1..Len(memo.virtualItems) :
               memo.virtualItems[k].offsetTop =
                   SumConstant(props.elementHeight, memo.virtualItems[k].id)
        /\ memo.totalHeight =
               SumConstant(props.elementHeight, props.elementQuantity)

\* C4's case: a recomputation over rows of different heights, one of them
\* measured.
C4_Witness ==
    /\ Dynamic
    /\ Len(memo.allRows) >= 2
    /\ memo.allRows[1].height # memo.allRows[2].height
    /\ memo.allRows[2].offsetTop > 0
    /\ DOMAIN measurementCache # {}

\* Every item has the same height h, supplied as itemHeight.
FixedStrategy ==
    /\ Dynamic
    /\ props.itemHeight.supplied
    /\ props.elementsQuantity > 0
    /\ \A k \in 1..props.elementsQuantity :
           props.itemHeight.value[k] = props.itemHeight.value[1]

\* C5: under a Fixed strategy the fast path of useFixedListSize and the
\* forward pass give the same startIndex, endIndex and totalHeight on the
\* same item count, scroll offset, viewport size and overscan.
C5_FastPathAgreesWithPass ==
    (FixedStrategy
        /\ listHeight = FixedContainerHeight(props.itemHeight.value[1])) =>
        LET fast == useMemoFixed(
                        [elementHeight |-> props.itemHeight.value[1],
                         elementQuantity |-> props.elementsQuantity,
                         overscan |-> props.overscan],
                        scrollTop, items)
        IN  /\ fast.startIndex = memo.startIndex
            /\ fast.endIndex = memo.endIndex
            /\ fast.totalHeight = memo.totalHeight

\* C6: the fixed-height path gives startIndex = max(0, floor(s/h) - overscan),
\* endIndex = min(itemCount - 1, ceil((s + viewport)/h) + overscan) and
\* totalHeight = itemCount * h; 1000 items of height 40 with overscan 3 in a
\* viewport of 600 at offset 0 give 0, 18 and 40000.
C6_FixedPathFormula ==
    /\ Simple =>
        /\ memo.startIndex =
               Max(0, (scrollTop \div props.elementHeight) - props.overscan)
        /\ memo.endIndex =
               Min(ItemCount - 1,
                   Ceil(scrollTop + ViewportSize, props.elementHeight)
                       + props.overscan)
        /\ memo.totalHeight = props.elementQuantity * props.elementHeight
    /\ LET r == useMemoFixed([elementHeight |-> 40, elementQuantity |-> 1000,
                              overscan |-> 3], 0, createItems(1000))
       IN  r.startIndex = 0 /\ r.endIndex = 18 /\ r.totalHeight = 40000

\* The height the measured strategy owes index i: the height last reported
\* for the key at i, else the estimate.
OwedHeight(i) ==
    IF getItemKey(items, i) \in DOMAIN reported
    THEN reported[getItemKey(items, i)]
    ELSE props.estimateItemHeight.value

\* C7: under the measured strategy the pass uses for every index the height
\* last reported for its key, or the estimate if none was, and the next
\* row's offsetTop is this row's offsetTop plus that height.
C7_MeasuredHeightsUsed ==
    Measured =>
        \A i \in 0..(props.elementsQuantity - 1) :
            /\ memo.allRows[i + 1].height = OwedHeight(i)
            /\ i + 1 < props.elementsQuantity =>
                   memo.allRows[i + 2].offsetTop =
                       memo.allRows[i + 1].offsetTop + OwedHeight(i)

\* C7's case: a height other than the estimate was reported for a row that
\* has a successor, while another row is still estimated.
C7_Witness ==
    /\ Measured
    /\ props.elementsQuantity >= 2
    /\ getItemKey(items, 0) \in DOMAIN reported
    /\ reported[getItemKey(items, 0)] # props.estimateItemHeight.value
    /\ getItemKey(items, 1) \notin DOMAIN reported
    /\ items # createItems(props.elementsQuantity)

\* C8: isScrolling is never false less than the configured scrollingDelay
\* after the most recent scroll notification.
C8_FalseOnlyAfterDelay ==
    (Ready /\ Live /\ sinceScroll >= 0 /\ ~isScrolling) =>
        sinceScroll >= props.scrollingDelay

\* C9: no debounce callback fires after the component has been detached.
C9_NoCallbackAfterDetach ==
    [][~(lifecycle = "unmounted"
            /\ \E id \in 1..(MaxTimers + 1) : TimerFire(id))]_vars

\* C10: only a measurement report changes the measurement cache, a report
\* changes no entry but that of its own key, and no key is ever removed.
C10_CacheFrame ==
    [][/\ DOMAIN measurementCache \subseteq DOMAIN measurementCache'
       /\ measurementCache' # measurementCache =>
              \E element \in Elements(Len(items)) :
                  /\ measureElement(element)
                  /\ element.present
                  /\ \A k \in DOMAIN measurementCache :
                         k # getItemKey(items,
                                        parseInt(element.dataIndex).value)
                             => measurementCache'[k] = measurementCache[k]
      ]_vars

\* C10's case: a cache of two entries that has been through a reorder, a
\* scroll, a timer expiry and the detach.
C10_Witness ==
    /\ Cardinality(DOMAIN measurementCache) >= 2
    /\ items # createItems(props.elementsQuantity)
    /\ sinceScroll > 0
    /\ ~isScrolling
    /\ lifecycle = "unmounted"

\* C11: setting up useFixedSizeList with neither itemHeight nor
\* estimateItemHeight fails at once with the configuration error, before any
\* state is created, any effect has run or any range is computed; with at
\* least one of the two supplied the error is never raised.
C11_ConfigurationError ==
    /\ error = "config" <=>
           /\ variant = "DynamicHeight"
           /\ ~props.itemHeight.supplied
           /\ ~props.estimateItemHeight.supplied
    /\ error = "config" =>
           /\ memo = NoMemo
           /\ scrollTop = 0 /\ listHeight = 0 /\ ~isScrolling
           /\ measurementCache = EmptyMap
           /\ lifecycle = "rendered"
           /\ listeners = {} /\ timers = EmptyMap

\* C11's case: the hook was called over a non-empty list with neither
\* function and threw.
C11_Witness ==
    /\ variant = "DynamicHeight"
    /\ props.elementsQuantity > 0
    /\ ~props.itemHeight.supplied /\ ~props.estimateItemHeight.supplied
    /\ error = "config"

\* The item count the hook is called with: elementQuantity, elementsQuantity.
GivenCount ==
    IF variant = "Simple" THEN props.elementQuantity
    ELSE props.elementsQuantity

\* C12: called with an item count of 0, either hook returns no rows, a
\* totalHeight of 0 and an empty range (startIndex = endIndex = 0, or a range
\* that is empty by its own values: endIndex < startIndex, or both at the
\* "none" value -1), at every scroll offset, viewport size and overscan.
C12_EmptyListEmptyRange ==
    (Ready /\ GivenCount = 0) =>
        /\ memo.virtualItems = << >>
        /\ memo.totalHeight = 0
        /\ \/ memo.startIndex = 0 /\ memo.endIndex = 0
           \/ memo.endIndex < memo.startIndex
           \/ memo.startIndex = -1 /\ memo.endIndex = -1

\* The index a returned row carries: index (useFixedSizeList), id
\* (useFixedListSize).
RowIndex(row) == IF variant = "Simple" THEN row.id ELSE row.index

\* C13: with itemCount > 0 the rows handed to the host are the inclusive
\* slice [startIndex, endIndex]: there are endIndex - startIndex + 1 of them
\* and the k-th (from 0) has index startIndex + k, also when the scroll offset
\* lies beyond the content or the viewport reaches past the last item.
C13_RowsAreTheSlice ==
    (Ready /\ ItemCount > 0) =>
        /\ Len(memo.virtualItems) = memo.endIndex - memo.startIndex + 1
        /\ \A k \in 1..Len(memo.virtualItems) :
               RowIndex(memo.virtualItems[k]) = memo.startIndex + k - 1

\* The index at which the item with key k sits in list.
IndexOfKey(list, k) == CHOOSE j \in 0..(Len(list) - 1) : list[j + 1] = k

\* C14: a measured height follows its item's key across a reorder: if h was
\* reported for key k while k sat at index i, the pass after the reorder uses
\* h for the index k sits at now, and for index i, if another key sits there
\* now, it uses what that key is owed (its own report, else the estimate).
C14_HeightsFollowKeys ==
    [][(Measured /\ items' # items) =>
          \A i \in 0..(props.elementsQuantity - 1) :
              LET k == items[i + 1]
                  j == IndexOfKey(items', k)
                  now == items'[i + 1]
              IN  k \in DOMAIN reported =>
                      /\ memo'.allRows[j + 1].height = reported[k]
                      /\ now # k =>
                             memo'.allRows[i + 1].height =
                                 IF now \in DOMAIN reported
                                 THEN reported[now]
                                 ELSE props.estimateItemHeight.value
      ]_vars

\* C14's case: the item created at index 0 was measured at a height other
\* than the estimate, the other item never; after the reorder it sits at
\* index 1 and the two rows have swapped heights.
C14_Witness ==
    /\ Measured
    /\ items = <<1, 0>>
    /\ DOMAIN reported = {0}
    /\ reported[0] # props.estimateItemHeight.value
    /\ memo.allRows[2].height = reported[0]
    /\ memo.allRows[1].height = props.estimateItemHeight.value

\* C15: at most one debounce timer is pending at any time, over every
\* interleaving of scroll notifications, timer expiries and re-runs of the
\* effect (a changed scrollingDelay or scroll element).
C15_AtMostOneTimer == Cardinality(DOMAIN timers) <= 1

\* C16: subscription and release are paired: a scroll notification that
\* arrives after the hook was detached changes neither scrollTop nor
\* isScrolling and schedules no timer, and attaching while the scroll element
\* is absent creates no listener and no timer.
C16_ReleasePaired ==
    [][/\ (lifecycle = "unmounted" /\ \E s \in ScrollOffsets : Scroll(s)) =>
              /\ scrollTop' = scrollTop
              /\ isScrolling' = isScrolling
              /\ timers' = timers
       /\ Mount(NoElement) =>
              /\ listeners' = {}
              /\ timers' = EmptyMap
      ]_vars

\* A report that cannot be used: no element, or an element whose data-index
\* attribute does not resolve to a number.
InvalidReport(element) ==
    \/ ~element.present
    \/ \A k \in 1..Len(IndexAttributes) : IndexAttributes[k] # element.dataIndex

C18_NegativeOffsetClamped ==
    (Ready /\ scrollTop < 0) =>
        LET atZero == Render(variant, props, measurementCache, items, 0,
                             listHeight)
        IN  /\ memo.startIndex = atZero.startIndex
            /\ memo.endIndex = atZero.endIndex
            /\ memo.virtualItems = atZero.virtualItems
            /\ memo.totalHeight = atZero.totalHeight

\* C19: isScrolling does not stay true forever: while the hook is attached
\* and isScrolling is true a debounce timer is pending, and unless scroll
\* notifications keep arriving for ever, from some moment on isScrolling is
\* false.
C19_EventuallyNotScrolling ==
    /\ []((Live /\ isScrolling) => DOMAIN timers # {})
    /\ \/ []<><<\E s \in ScrollOffsets : Scroll(s)>>_vars
       \/ <>[](~(Live /\ isScrolling))

\* C19's case: the hook is attached, the last scroll notification lies at
\* least the debounce delay back, the timer has fired and isScrolling is
\* false again.
C19_Witness ==
    /\ Ready /\ Live
    /\ scrollTop > 0
    /\ sinceScroll >= DebounceDelay(variant, props)
    /\ timers = EmptyMap
    /\ ~isScrolling

====
